---- MODULE Spec2Model ----
(***************************************************************************)
(* apexmq: the connection / channel / queue lifecycle of                   *)
(* apexmq/connection.py, the Publish API of apexmq/producers.py, the       *)
(* dispatcher and consume threads of apexmq/apps.py and the settings of    *)
(* apexmq/conf.py.                                                         *)
(*                                                                         *)
(* Spec         get_connection, create_channel and close_connection called *)
(*              by two threads against a broker that may refuse a dial or  *)
(*              drop a session.                                            *)
(* SpecConnect  connect() called directly by two threads.                  *)
(* SpecPublish  one thread that creates channels and queues and publishes, *)
(*              through ChannelManager.publish and through the Publish API,*)
(*              against a broker that accepts every dial but may drop a    *)
(*              session.                                                   *)
(* SpecDispatch message_callback applied to every action type and payload, *)
(*              for every registry of handler classes and function table.  *)
(* SpecConsume  one channel with consumed queues and its consume thread,   *)
(*              against a broker that delivers messages and may drop the   *)
(*              session; the consume thread is scheduled fairly.           *)
(* SpecQueues   one thread that declares queues through create_queue and   *)
(*              by constructing ApexMQQueueManager, and calls get_queue.   *)
(* SpecConfig   ready() with DEBUG on or off and setup_rabbitmq's loop     *)
(*              over every APEXMQ_SETTINGS of up to MaxConnections items.  *)
(* SpecQueueRace two threads inside create_queue of one ChannelManager,    *)
(*              interleaved between its test, its declaration and its      *)
(*              assignment.                                                *)
(* SpecChannels two threads that create up to MaxChannels ChannelManagers  *)
(*              and look them up by name.                                  *)
(* SpecStartup  one run of setup_rabbitmq, statement by statement, with    *)
(*              its consume thread, and the stop_threads() of a reload.    *)
(***************************************************************************)
EXTENDS Integers, Sequences, FiniteSets, TLC

VARIABLES
    max_retries,    \* ApexMQConnectionManager.__MAX_RETRIES__
    connection,     \* ApexMQConnectionManager.connection
    local,          \* ApexMQConnectionManager.local: per thread, its .connection
    sessions,       \* the pika.BlockingConnection objects opened so far
    channels,       \* the BlockingChannel objects opened so far
    managers,       \* the ApexMQChannelManager instances
    queues,         \* the ApexMQQueueManager instances
    queue_registry, \* ApexMQQueueManager._queue_list
    declared,       \* per queue name, the queue_declare calls the broker received
    pc,             \* per thread: "idle", or where it is inside connect()
    call,           \* per thread: the call it is in, or the last one it finished
    pubret,         \* the last publish call and what it did
    channels_list,  \* ApexMQChannelManager._channels_list
    thread_list,    \* apps.thread_list: the consume threads kept for stop_threads
    consumers,      \* the handler classes get_consumers_from_apps() returns
    action_handlers,\* consumers.action_handlers: the on_consume function table
    dispatched,     \* the last message_callback call and what it did
    pumps,          \* per ChannelManager: its start_consuming thread
    settings,       \* django settings.APEXMQ_SETTINGS
    boot            \* setup_rabbitmq: how far it got

\* The variables of the application: handlers, consume threads, settings.
appvars == <<channels_list, thread_list, consumers, action_handlers,
             dispatched, pumps, settings, boot>>

vars == <<max_retries, connection, local, sessions, channels, managers, queues,
          queue_registry, declared, pc, call, pubret, appvars>>

(***************************************************************************)
(* Bounds of the model.                                                    *)
(***************************************************************************)
MaxRetriesBound == 2
MaxSessions == 2
MaxManagers == 1
MaxQueues == 2
MaxHandlers == 2
MaxConnections == 2
MaxChannels == 2

Threads == {"t1", "t2"}
PublisherThreads == {"t1"}
ChannelNames == {"ch1"}
QueueNames == {"q1", "q2"}

(***************************************************************************)
(* Python values.                                                          *)
(***************************************************************************)
\* None; session, channel, manager and queue ids start at 1.
None == 0
\* hasattr(self.local, "connection") is False: the thread never assigned it.
NoAttr == -1

\* threading.local(): the attribute slot a thread reads and writes is its own.
SharedSlot(t) == "t1"
Slot(t) == t

\* range(self.__MAX_RETRIES__): the number of iterations of connect()'s loop.
RetryRangeOffByOne == max_retries + 1
RetryRange == max_retries

\* get_connection()'s condition for calling connect().
\* (loc: the value of the thread's slot; sess: the sessions as they are then.)
NeedsConnectIgnoringClosed(loc, sess) == loc = NoAttr \/ loc = None
NeedsConnectAlways(loc, sess) == TRUE
NeedsConnect(loc, sess) ==
    \/ loc = NoAttr
    \/ loc = None
    \/ sess[loc].is_closed

\* A thread's slot holds a session that does not report closed.
Live(t) == local[t] > None /\ ~sessions[local[t]].is_closed

NoCall ==
    [op |-> "none", kind |-> "none", name |-> "none", session |-> None,
     manager |-> None, queue |-> None, dials |-> <<>>, connects |-> 0,
     pre |-> NoAttr, preLive |-> FALSE, preOthers |-> {}, choices |-> {}]

\* The call a thread starts: what it was asked and what it found.
NewCall(t, op, name) ==
    [op |-> op, kind |-> "running", name |-> name, session |-> None,
     manager |-> None, queue |-> None, dials |-> <<>>, connects |-> 0,
     pre |-> local[t], preLive |-> Live(t),
     preOthers |-> {local[u] : u \in {v \in Threads \ {t} : Live(v)}},
     choices |-> {}]

\* A list, and a str: iterating a str yields its characters.
PyList(items) == [type |-> "list", items |-> items]
PyStr(chars) == [type |-> "str", items |-> chars]
NoArg == [type |-> "none", items |-> <<>>]
Broadcast == PyStr(<<"b", "r", "o", "a", "d", "c", "a", "s", "t">>)

\* for publish_to in to
Iterate(to) == to.items

\* The message bodies: {"id": 7}, {"id": 7, "n": 1} and a set, which json
\* cannot serialize.
Bodies ==
    { [type |-> "dict", items |-> << <<"id", 7>> >>],
      [type |-> "dict", items |-> << <<"id", 7>>, <<"n", 1>> >>],
      [type |-> "set", items |-> <<>>] }
Actions == {"user.created"}
Destinations == {PyList(<<"q1">>), PyList(<<"q1", "q2">>), Broadcast}

\* json.dumps(body): the text, or TypeError.
RECURSIVE JsonItems(_)
JsonItems(items) ==
    IF items = <<>> THEN ""
    ELSE "\"" \o items[1][1] \o "\": " \o ToString(items[1][2])
         \o (IF Len(items) > 1 THEN ", " \o JsonItems(Tail(items)) ELSE "")

JsonDumps(body) ==
    IF body.type = "dict"
    THEN [ok |-> TRUE, text |-> "{" \o JsonItems(body.items) \o "}"]
    ELSE [ok |-> FALSE, text |-> ""]

\* basic_publish(exchange="", routing_key=to, body=..., properties=
\* BasicProperties(content_type=action)): the message handed to the broker.
Message(to, action, text) ==
    [routing_key |-> to, content_type |-> action, body |-> text]

NoPublish ==
    [api |-> "none", action |-> "", body |-> NoArg, to |-> NoArg,
     routing_key |-> "", attempted |-> <<>>, sent |-> <<>>, logged |-> 0,
     exc |-> "none", raised |-> "none", registry |-> {}]

(***************************************************************************)
(* Messages delivered to the application, and its handlers.                *)
(***************************************************************************)
\* The action types delivered, each by the segments action_type.split(".")
\* yields: order.created, order.status.updated, user.created, ping, ping.now.
DispatchActions ==
    { <<"order", "created">>, <<"order", "status", "updated">>,
      <<"user", "created">>, <<"ping">>, <<"ping", "now">> }

\* The action type as the str it is: the key of the function table.
RECURSIVE Join(_, _)
Join(sep, segs) ==
    IF segs = <<>> THEN ""
    ELSE IF Len(segs) = 1 THEN segs[1]
    ELSE segs[1] \o sep \o Join(sep, Tail(segs))

\* The payloads delivered: the JSON text of a dict, or text that is not JSON.
Decodable == {b \in Bodies : JsonDumps(b).ok}
Payloads == {JsonDumps(b).text : b \in Decodable} \cup {"not json"}

\* The raw payload, as the callback receives it.
PyBytes(text) == [type |-> "bytes", items |-> <<text>>]

\* json.loads(data): the value whose JSON text data is, or JSONDecodeError.
JsonLoads(text) ==
    IF \E b \in Decodable : JsonDumps(b).text = text
    THEN [ok |-> TRUE,
          value |-> CHOOSE b \in Decodable : JsonDumps(b).text = text]
    ELSE [ok |-> FALSE, value |-> NoArg]

\* Subclasses of BaseConsumer: the lookup_prefix and the callable attributes
\* a message can name.  Two of them share a prefix.
HandlerClasses ==
    { [name |-> "OrderConsumer", lookup_prefix |-> "order",
       methods |-> {"created"}],
      [name |-> "OrderStatusConsumer", lookup_prefix |-> "order",
       methods |-> {"created", "status_updated"}],
      [name |-> "UserConsumer", lookup_prefix |-> "user",
       methods |-> {"created"}] }

\* The actions functions may be registered for with @on_consume.
HandledActions == {"ping", "order.created", "order.status.updated"}

NoDispatch ==
    [action |-> <<>>, body |-> "", invoked |-> <<>>, warnings |-> 0,
     handler_warnings |-> 0, raised |-> "none"]

\* A key of APEXMQ_SETTINGS with the keys of the dict it maps to.
Entry(name, keys) == [name |-> name, keys |-> keys]

\* Settings with which ApexMQConnectionManager("default") can be constructed.
DefaultSettings ==
    <<Entry("CONNECTIONS", {}), Entry("default", {"USER", "PASSWORD"})>>

NoBoot ==
    [mode |-> "none", stage |-> "none", pos |-> 0, error |-> "none",
     constructed |-> <<>>, dialed |-> <<>>]

\* The application as it is before any message and any setup_rabbitmq.
InitApp(registry, table, cfg) ==
    /\ channels_list = <<>>
    /\ thread_list = <<>>
    /\ consumers = registry
    /\ action_handlers = table
    /\ dispatched = NoDispatch
    /\ pumps = [m \in 1..MaxManagers |-> "none"]
    /\ settings = cfg
    /\ boot = NoBoot

\* The state after ApexMQConnectionManager.__init__ with MAX_RETRIES = retries.
InitManager(retries) ==
    /\ max_retries = retries
    /\ connection = None
    /\ local = [t \in Threads |-> NoAttr]
    /\ sessions = <<>>
    /\ channels = <<>>
    /\ managers = <<>>
    /\ queues = <<>>
    /\ queue_registry = <<>>
    /\ declared = [q \in QueueNames |-> 0]
    /\ pc = [t \in Threads |-> "idle"]
    /\ call = [t \in Threads |-> NoCall]
    /\ pubret = NoPublish

\* A constructed ConnectionManager in an application without handlers.
InitWith(retries) ==
    /\ InitManager(retries)
    /\ InitApp(<<>>, {}, DefaultSettings)

Init == \E retries \in 0..MaxRetriesBound : InitWith(retries)

\* self.connection_params.get("MAX_RETRIES", 5)
DefaultMaxRetries == 5

TypeOK ==
    /\ max_retries \in (0..MaxRetriesBound) \cup {DefaultMaxRetries}
    /\ connection = None
    /\ \A t \in Threads : local[t] \in {NoAttr, None} \cup (1..Len(sessions))
    /\ pc \in [Threads -> {"idle", "dial", "sleep", "declare", "store"}]

(***************************************************************************)
(* ApexMQConnectionManager.connect(): the retry loop.  A thread inside it  *)
(* is at "dial" (in pika.BlockingConnection(...)) or at "sleep" (in        *)
(* time.sleep(retry_delay) after a failed attempt).                        *)
(***************************************************************************)
\* connect() is entered with call record c: the loop's first test.
EnterConnect(t, c) ==
    IF RetryRange = 0
    THEN /\ call' = [call EXCEPT ![t] = [c EXCEPT !.kind = "ConnectionError"]]
         /\ pc' = pc
    ELSE /\ call' = [call EXCEPT ![t] = c]
         /\ pc' = [pc EXCEPT ![t] = "dial"]

\* self.publish_channel = connection_manager.get_connection().channel():
\* the channel opened after the consume channel.
ReusedChannelId(consume) == consume
PublishChannelId(consume) == consume + 1

\* ApexMQChannelManager.__init__
ChannelManagerInit(t, channel, name) ==
    [connection_manager |-> t, channel |-> channel, channel_name |-> name,
     queue_list |-> <<>>, publish_channel |-> PublishChannelId(channel)]

\* create_channel() once get_connection() has returned session s: the consume
\* channel, then the ChannelManager, whose constructor calls get_connection()
\* again (the slot now holds s, which is open) for the publish channel.
CreateChannelBody(t, c, s) ==
    LET channel == Len(channels) + 1
        s2 == IF NeedsConnect(s, sessions') THEN None ELSE s
    IN  /\ channels' = channels \o <<[session |-> s], [session |-> s2]>>
        /\ managers' = Append(managers, ChannelManagerInit(t, channel, c.name))
        /\ call' = [call EXCEPT ![t] =
               [c EXCEPT !.kind = "ok", !.session = s,
                         !.manager = Len(managers) + 1]]

\* A direct call of connect(), as setup_rabbitmq and the tests make.
CallConnect(t) ==
    /\ pc[t] = "idle"
    /\ EnterConnect(t, [NewCall(t, "connect", "none") EXCEPT !.connects = 1])
    /\ UNCHANGED <<appvars, max_retries, connection, local, sessions, channels, managers,
                   queues, queue_registry, declared, pubret>>

CallGetConnection(t) ==
    /\ pc[t] = "idle"
    /\ IF NeedsConnect(local[Slot(t)], sessions)
       THEN EnterConnect(t, [NewCall(t, "get_connection", "none")
                                EXCEPT !.connects = 1])
       ELSE /\ call' = [call EXCEPT ![t] =
                   [NewCall(t, "get_connection", "none")
                       EXCEPT !.kind = "ok", !.session = local[Slot(t)]]]
            /\ pc' = pc
    /\ UNCHANGED <<appvars, max_retries, connection, local, sessions, channels, managers,
                   queues, queue_registry, declared, pubret>>

\* The create_channel calls that are inside connect().
Creating == {u \in Threads : pc[u] # "idle" /\ call[u].op = "create_channel"}

\* create_channel(name, config), while fewer than limit ChannelManagers
\* exist or are being created.
CreateChannelWithin(t, name, limit) ==
    /\ pc[t] = "idle"
    /\ Len(managers) + Cardinality(Creating) < limit
    /\ IF NeedsConnect(local[Slot(t)], sessions)
       THEN /\ EnterConnect(t, [NewCall(t, "create_channel", name)
                                   EXCEPT !.connects = 1])
            /\ UNCHANGED <<sessions, channels, managers>>
       ELSE /\ sessions' = sessions
            /\ CreateChannelBody(t, NewCall(t, "create_channel", name),
                                 local[Slot(t)])
            /\ pc' = pc
    /\ UNCHANGED <<appvars, max_retries, connection, local, queues,
                   queue_registry, declared, pubret>>

CallCreateChannel(t, name) == CreateChannelWithin(t, name, MaxManagers)

\* pika.BlockingConnection(connection_params) returns: connect() returns the
\* session to its caller, which goes on.
DialSucceeds(t) ==
    /\ pc[t] = "dial"
    /\ Len(sessions) < MaxSessions
    /\ LET s == Len(sessions) + 1
           c == [call[t] EXCEPT !.dials = Append(@, TRUE)]
       IN  /\ sessions' = Append(sessions, [is_closed |-> FALSE])
           /\ pc' = [pc EXCEPT ![t] = "idle"]
           /\ IF c.op = "connect"
              THEN /\ call' = [call EXCEPT ![t] =
                          [c EXCEPT !.kind = "ok", !.session = s]]
                   /\ UNCHANGED <<local, channels, managers>>
              ELSE IF c.op = "get_connection"
              THEN /\ local' = [local EXCEPT ![Slot(t)] = s]
                   /\ call' = [call EXCEPT ![t] =
                          [c EXCEPT !.kind = "ok", !.session = s]]
                   /\ UNCHANGED <<channels, managers>>
              ELSE /\ local' = [local EXCEPT ![Slot(t)] = s]
                   /\ CreateChannelBody(t, c, s)
    /\ UNCHANGED <<appvars, max_retries, connection, queues, queue_registry, declared,
                   pubret>>

\* pika.BlockingConnection(connection_params) raises AMQPConnectionError: the
\* error is logged and the thread sleeps retry_delay.
DialFails(t) ==
    /\ pc[t] = "dial"
    /\ call' = [call EXCEPT ![t].dials = Append(@, FALSE)]
    /\ pc' = [pc EXCEPT ![t] = "sleep"]
    /\ UNCHANGED <<appvars, max_retries, connection, local, sessions, channels, managers,
                   queues, queue_registry, declared, pubret>>

\* The sleep ends: the loop's next test, and after the last iteration the
\* ConnectionError, which get_connection and create_channel let through.
Wake(t) ==
    /\ pc[t] = "sleep"
    /\ IF Len(call[t].dials) < RetryRange
       THEN /\ pc' = [pc EXCEPT ![t] = "dial"]
            /\ call' = call
       ELSE /\ pc' = [pc EXCEPT ![t] = "idle"]
            /\ call' = [call EXCEPT ![t].kind = "ConnectionError"]
    /\ UNCHANGED <<appvars, max_retries, connection, local, sessions, channels, managers,
                   queues, queue_registry, declared, pubret>>

\* self.local.connection = None, after close(): what the slot then holds.
SlotAfterCloseKept(loc) == loc
SlotAfterClose(loc) == None

\* ApexMQConnectionManager.close_connection(); pika's close() of a closed
\* connection raises ConnectionWrongStateError.
CloseConnection(t) ==
    /\ pc[t] = "idle"
    /\ LET loc == local[Slot(t)]
       IN  IF loc # NoAttr /\ loc # None
           THEN IF sessions[loc].is_closed
                THEN /\ call' = [call EXCEPT ![t] =
                            [NewCall(t, "close_connection", "none")
                                EXCEPT !.kind = "ConnectionWrongStateError"]]
                     /\ UNCHANGED <<local, sessions>>
                ELSE /\ sessions' = [sessions EXCEPT ![loc].is_closed = TRUE]
                     /\ local' = [local EXCEPT ![Slot(t)] = SlotAfterClose(loc)]
                     /\ call' = [call EXCEPT ![t] =
                            [NewCall(t, "close_connection", "none")
                                EXCEPT !.kind = "ok", !.session = loc]]
           ELSE /\ call' = [call EXCEPT ![t] =
                       [NewCall(t, "close_connection", "none")
                           EXCEPT !.kind = "ok"]]
                /\ UNCHANGED <<local, sessions>>
    /\ UNCHANGED <<appvars, max_retries, connection, channels, managers, queues,
                   queue_registry, declared, pc, pubret>>

\* The broker, or the network, ends a session: it reports is_closed.
BrokerDrop(s) ==
    /\ s \in 1..Len(sessions)
    /\ ~sessions[s].is_closed
    /\ sessions' = [sessions EXCEPT ![s].is_closed = TRUE]
    /\ UNCHANGED <<appvars, max_retries, connection, local, channels, managers, queues,
                   queue_registry, declared, pc, call, pubret>>

Next ==
    \/ \E t \in Threads : CallGetConnection(t)
    \/ \E t \in Threads, name \in ChannelNames : CallCreateChannel(t, name)
    \/ \E t \in Threads : DialSucceeds(t)
    \/ \E t \in Threads : DialFails(t)
    \/ \E t \in Threads : Wake(t)
    \/ \E t \in Threads : CloseConnection(t)
    \/ \E s \in 1..MaxSessions : BrokerDrop(s)

Spec == Init /\ [][Next]_vars

\* connect() called directly, as setup_rabbitmq and the tests call it.
NextConnect ==
    \/ \E t \in Threads : CallConnect(t)
    \/ \E t \in Threads : DialSucceeds(t)
    \/ \E t \in Threads : DialFails(t)
    \/ \E t \in Threads : Wake(t)
    \/ \E s \in 1..MaxSessions : BrokerDrop(s)

SpecConnect == Init /\ [][NextConnect]_vars

(***************************************************************************)
(* Queues and publishing.                                                  *)
(***************************************************************************)
\* A channel whose session is gone: pika raises ChannelWrongStateError.
ChannelClosed(ch) ==
    channels[ch].session = None \/ sessions[channels[ch].session].is_closed

\* queue_name in self.queue_list, in create_queue.
InQueueListNever(manager, name) == FALSE
InQueueList(manager, name) == name \in DOMAIN manager.queue_list

\* ApexMQChannelManager.create_queue, with ApexMQQueueManager.__init__ and
\* declare_queue.
CreateQueue(t, m, name) ==
    /\ pc[t] = "idle"
    /\ m \in 1..Len(managers)
    /\ IF ~InQueueList(managers[m], name)
       THEN IF ChannelClosed(managers[m].channel)
            THEN /\ call' = [call EXCEPT ![t] =
                        [NewCall(t, "create_queue", name)
                            EXCEPT !.kind = "ChannelWrongStateError",
                                   !.manager = m]]
                 /\ UNCHANGED <<managers, queues, queue_registry, declared>>
            ELSE /\ Len(queues) < MaxQueues
                 /\ LET q == Len(queues) + 1
                    IN  /\ declared' = [declared EXCEPT ![name] = @ + 1]
                        /\ queues' = Append(queues,
                               [channel |-> managers[m].channel,
                                queue_name |-> name, consumer |-> FALSE])
                        /\ queue_registry' =
                               (name :> q) @@ queue_registry
                        /\ managers' = [managers EXCEPT ![m].queue_list =
                               (name :> q) @@ @]
                        /\ call' = [call EXCEPT ![t] =
                               [NewCall(t, "create_queue", name)
                                   EXCEPT !.kind = "ok", !.manager = m,
                                          !.queue = q]]
       ELSE /\ call' = [call EXCEPT ![t] =
                   [NewCall(t, "create_queue", name)
                       EXCEPT !.kind = "ok", !.manager = m,
                              !.queue = managers[m].queue_list[name]]]
            /\ UNCHANGED <<managers, queues, queue_registry, declared>>
    /\ UNCHANGED <<appvars, max_retries, connection, local, sessions, channels, pc,
                   pubret>>

\* except Exception as e: error(...) in ApexMQChannelManager.publish.
PublishCatchesAMQPOnly(exc) == exc = "AMQPError"
PublishCatches(exc) == TRUE

\* ApexMQChannelManager.publish(action, body, to) on manager m; transport_ok:
\* whether basic_publish gets the frame out.
ChannelPublish(t, m, action, body, to, transport_ok) ==
    /\ pc[t] = "idle"
    /\ m \in 1..Len(managers)
    /\ LET dumped == JsonDumps(body)
           exc == IF ~dumped.ok THEN "TypeError"
                  ELSE IF ChannelClosed(managers[m].publish_channel)
                  THEN "ChannelWrongStateError"
                  ELSE IF ~transport_ok THEN "AMQPError"
                  ELSE "none"
       IN  pubret' =
               [api |-> "ChannelManager.publish", action |-> action,
                body |-> body, to |-> NoArg, routing_key |-> to,
                attempted |-> <<to>>,
                sent |-> IF exc = "none"
                         THEN <<Message(to, action, dumped.text)>> ELSE <<>>,
                logged |-> IF exc # "none" /\ PublishCatches(exc)
                           THEN 1 ELSE 0,
                exc |-> exc,
                raised |-> IF exc # "none" /\ ~PublishCatches(exc)
                           THEN exc ELSE "none",
                registry |-> DOMAIN queue_registry]
    /\ UNCHANGED <<appvars, max_retries, connection, local, sessions, channels,
                   managers, queues, queue_registry, declared, pc, call>>

\* def publish(self, action, body, to): its positional parameters.
PublishParams == <<"self", "action", "body", "to">>

\* A call of a function with positional arguments: they bind to the
\* parameters in order, and a parameter left without one is a TypeError.
BindArgs(params, args) ==
    IF Len(args) = Len(params) THEN "bound" ELSE "TypeError"

\* except Exception as e: logger.error(...) in the Publish API.
ApiCatches(exc) == TRUE

\* The Publish API's loop: ApexMQChannelManager.publish(action, body,
\* publish_to) is called through the class, with three arguments.
RECURSIVE PublishLoop(_, _, _, _)
PublishLoop(action, body, items, acc) ==
    IF items = <<>> \/ acc.raised # "none" THEN acc
    ELSE LET publish_to == Head(items)
             args == <<action, body, publish_to>>
             bound == BindArgs(PublishParams, args)
             next ==
                 IF bound = "bound"
                 THEN [acc EXCEPT !.attempted = Append(@, publish_to),
                          !.sent = Append(@, Message(args[4], args[2],
                                             JsonDumps(args[3]).text))]
                 ELSE IF ApiCatches(bound)
                 THEN [acc EXCEPT !.attempted = Append(@, publish_to),
                                  !.logged = @ + 1, !.exc = bound]
                 ELSE [acc EXCEPT !.attempted = Append(@, publish_to),
                                  !.exc = bound, !.raised = bound]
         IN  PublishLoop(action, body, Tail(items), next)

\* producers.publish(action, body, to)
ApiPublish(t, action, body, to) ==
    /\ pc[t] = "idle"
    /\ pubret' = PublishLoop(action, body, Iterate(to),
           [NoPublish EXCEPT !.api = "publish", !.action = action,
                             !.body = body, !.to = to,
                             !.registry = DOMAIN queue_registry])
    /\ UNCHANGED <<appvars, max_retries, connection, local, sessions, channels,
                   managers, queues, queue_registry, declared, pc, call>>

NextPublish ==
    \/ \E t \in PublisherThreads, name \in ChannelNames :
           CallCreateChannel(t, name)
    \/ \E t \in PublisherThreads : DialSucceeds(t)
    \/ \E s \in 1..MaxSessions : BrokerDrop(s)
    \/ \E t \in PublisherThreads, m \in 1..MaxManagers, name \in QueueNames :
           CreateQueue(t, m, name)
    \/ \E t \in PublisherThreads, m \in 1..MaxManagers, action \in Actions,
          body \in Bodies, to \in QueueNames, transport_ok \in BOOLEAN :
           ChannelPublish(t, m, action, body, to, transport_ok)
    \/ \E t \in PublisherThreads, action \in Actions, body \in Bodies,
          to \in Destinations :
           ApiPublish(t, action, body, to)

\* The publisher's connection is configured without MAX_RETRIES.
InitPublish == InitWith(DefaultMaxRetries)

SpecPublish == InitPublish /\ [][NextPublish]_vars

(***************************************************************************)
(* ApexMQConfig.message_callback: the dispatcher.                          *)
(***************************************************************************)
\* ConsumerClass.lookup_prefix == action_type.split(".")[0]
PrefixMatchesAnyHandler(h, action) == TRUE
PrefixMatches(h, action) == h.lookup_prefix = action[1]

\* The handlers of the registry, from the i-th on, whose prefix matches.
RECURSIVE MatchingFrom(_, _, _)
MatchingFrom(registry, action, i) ==
    IF i > Len(registry) THEN <<>>
    ELSE IF PrefixMatches(registry[i], action)
    THEN <<i>> \o MatchingFrom(registry, action, i + 1)
    ELSE MatchingFrom(registry, action, i + 1)

\* for ConsumerClass in consumers: if <prefix matches>: ...; break
\* The handlers the loop hands the message to: the first that matches.
ConsumersTriedWithoutBreak(registry, action) == MatchingFrom(registry, action, 1)
ConsumersTried(registry, action) ==
    LET matching == MatchingFrom(registry, action, 1)
    IN  IF matching = <<>> THEN <<>> ELSE <<Head(matching)>>

\* "_".join(action_types[1:])
MethodName(action) == Join("_", Tail(action))

\* BaseConsumer.process_messege(action, data) on an instance of the i-th
\* handler class h; acc: what the callback has done so far.
ProcessMessege(i, h, action, data, acc) ==
    IF h.lookup_prefix = ""
    THEN [acc EXCEPT !.raised = "ImproperlyConfigured"]
    ELSE IF h.lookup_prefix = action[1]
    THEN IF MethodName(action) \in h.methods
         THEN LET decoded == JsonLoads(data)
              IN  IF decoded.ok
                  THEN [acc EXCEPT !.invoked = Append(@,
                           [target |-> "method", handler |-> i,
                            name |-> MethodName(action),
                            arg |-> decoded.value])]
                  ELSE [acc EXCEPT !.raised = "JSONDecodeError"]
         ELSE [acc EXCEPT !.handler_warnings = @ + 1]
    ELSE [acc EXCEPT !.handler_warnings = @ + 1]

\* The loop over the handlers; an exception ends it.
RECURSIVE RunConsumers(_, _, _, _, _)
RunConsumers(registry, tried, action, body, acc) ==
    IF tried = <<>> \/ acc.raised # "none" THEN acc
    ELSE RunConsumers(registry, Tail(tried), action, body,
             ProcessMessege(Head(tried), registry[Head(tried)], action, body,
                            acc))

\* action_method_found after the loop: set when a handler class was handed
\* the message, whatever process_messege did with it.
FoundOnlyIfInvoked(tried, looped) == looped.invoked # <<>>
ActionMethodFound(tried, looped) == tried # <<>>

\* message_callback(channel, method, properties, body) with
\* properties.content_type = action.
MessageCallback(registry, table, action, body) ==
    LET tried == ConsumersTried(registry, action)
        looped == RunConsumers(registry, tried, action, body,
                      [NoDispatch EXCEPT !.action = action, !.body = body])
        action_type == Join(".", action)
    IN  IF looped.raised # "none" \/ ActionMethodFound(tried, looped)
        THEN looped
        ELSE IF action_type \in table
        THEN [looped EXCEPT !.invoked = Append(@,
                 [target |-> "function", handler |-> 0, name |-> action_type,
                  arg |-> PyBytes(body)])]
        ELSE [looped EXCEPT !.warnings = @ + 1]

\* A message is handed to the callback.
CallMessageCallback(action, body) ==
    /\ dispatched' = MessageCallback(consumers, action_handlers, action, body)
    /\ UNCHANGED <<max_retries, connection, local, sessions, channels,
                   managers, queues, queue_registry, declared, pc, call,
                   pubret, channels_list, thread_list, consumers,
                   action_handlers, pumps, settings, boot>>

NextDispatch ==
    \E action \in DispatchActions, body \in Payloads :
        CallMessageCallback(action, body)

\* The registries get_consumers_from_apps() can return: handler classes in
\* the order of discovery.
Registries ==
    {r \in UNION {[1..n -> HandlerClasses] : n \in 0..MaxHandlers} :
        \A i, j \in 1..Len(r) : i # j => r[i] # r[j]}

InitDispatch ==
    /\ InitManager(DefaultMaxRetries)
    /\ \E registry \in Registries, table \in SUBSET HandledActions :
           InitApp(registry, table, DefaultSettings)

SpecDispatch == InitDispatch /\ [][NextDispatch]_vars

(***************************************************************************)
(* The consume threads setup_rabbitmq starts: one per ChannelManager, each *)
(* running channel.start_consuming, which calls message_callback for every *)
(* delivery.  A pump is "none" (not started), "running", "crashed" (an     *)
(* exception of the callback ended its thread) or "disconnected" (the loss *)
(* of its connection ended its thread).                                    *)
(***************************************************************************)
\* ApexMQQueueManager(channel=channel_manager.channel, queue_name=name, ...)
\* constructed directly, as setup_rabbitmq does, and with consume its
\* basic_consumer(on_message_callback=self.message_callback).
NewQueueManager(t, m, name, consume) ==
    /\ pc[t] = "idle"
    /\ m \in 1..Len(managers)
    /\ IF ChannelClosed(managers[m].channel)
       THEN /\ call' = [call EXCEPT ![t] =
                   [NewCall(t, "QueueManager", name)
                       EXCEPT !.kind = "ChannelWrongStateError",
                              !.manager = m]]
            /\ UNCHANGED <<queues, queue_registry, declared>>
       ELSE /\ Len(queues) < MaxQueues
            /\ LET q == Len(queues) + 1
               IN  /\ declared' = [declared EXCEPT ![name] = @ + 1]
                   /\ queues' = Append(queues,
                          [channel |-> managers[m].channel,
                           queue_name |-> name, consumer |-> consume])
                   /\ queue_registry' = (name :> q) @@ queue_registry
                   /\ call' = [call EXCEPT ![t] =
                          [NewCall(t, "QueueManager", name)
                              EXCEPT !.kind = "ok", !.manager = m,
                                     !.queue = q]]
    /\ UNCHANGED <<appvars, max_retries, connection, local, sessions,
                   channels, managers, pc, pubret>>

\* setup_rabbitmq's step for a queue of a channel, before the channel's
\* thread is started.
ConsumeQueue(t, m, name) ==
    /\ m \in 1..Len(managers)
    /\ pumps[m] = "none"
    /\ NewQueueManager(t, m, name, TRUE)

\* thread = threading.Thread(target=channel_manager.channel.start_consuming,
\* daemon=True); thread_list.append(thread); thread.start()
StartPump(t, m) ==
    /\ pc[t] = "idle"
    /\ m \in 1..Len(managers)
    /\ pumps[m] = "none"
    /\ pumps' = [pumps EXCEPT ![m] = "running"]
    /\ thread_list' = Append(thread_list, m)
    /\ UNCHANGED <<max_retries, connection, local, sessions, channels,
                   managers, queues, queue_registry, declared, pc, call,
                   pubret, channels_list, consumers,
                   action_handlers, dispatched, settings,
                   boot>>

\* The channel of manager m has a consumer registered on one of its queues.
Consuming(m) ==
    \E q \in 1..Len(queues) :
        queues[q].channel = managers[m].channel /\ queues[q].consumer

\* The broker delivers a message to a consumer of manager m's channel:
\* start_consuming calls message_callback in the pump's thread, and an
\* exception of the callback leaves start_consuming and ends the thread.
Deliver(m, action, body) ==
    /\ m \in 1..Len(managers)
    /\ pumps[m] = "running"
    /\ ~ChannelClosed(managers[m].channel)
    /\ Consuming(m)
    /\ dispatched' = MessageCallback(consumers, action_handlers, action, body)
    /\ pumps' = IF dispatched'.raised # "none"
                THEN [pumps EXCEPT ![m] = "crashed"]
                ELSE pumps
    /\ UNCHANGED <<max_retries, connection, local, sessions, channels,
                   managers, queues, queue_registry, declared, pc, call,
                   pubret, channels_list, thread_list, consumers,
                   action_handlers, settings, boot>>

\* The session of a running pump's channel is gone: start_consuming raises
\* and the thread ends.
PumpLosesConnection(m) ==
    /\ m \in 1..Len(managers)
    /\ pumps[m] = "running"
    /\ ChannelClosed(managers[m].channel)
    /\ pumps' = [pumps EXCEPT ![m] = "disconnected"]
    /\ UNCHANGED <<max_retries, connection, local, sessions, channels,
                   managers, queues, queue_registry, declared, pc, call,
                   pubret, channels_list, thread_list, consumers,
                   action_handlers, dispatched, settings,
                   boot>>

NextConsume ==
    \/ \E t \in PublisherThreads, name \in ChannelNames :
           CallCreateChannel(t, name)
    \/ \E t \in PublisherThreads : DialSucceeds(t)
    \/ \E s \in 1..MaxSessions : BrokerDrop(s)
    \/ \E t \in PublisherThreads, m \in 1..MaxManagers, name \in QueueNames :
           ConsumeQueue(t, m, name)
    \/ \E t \in PublisherThreads, m \in 1..MaxManagers : StartPump(t, m)
    \/ \E m \in 1..MaxManagers, action \in DispatchActions,
          body \in Payloads :
           Deliver(m, action, body)
    \/ \E m \in 1..MaxManagers : PumpLosesConnection(m)

\* The application of the consume threads: one handler class and one function.
ConsumeRegistry ==
    <<CHOOSE h \in HandlerClasses : h.name = "OrderConsumer">>

InitConsume ==
    /\ InitManager(DefaultMaxRetries)
    /\ InitApp(ConsumeRegistry, {"ping"}, DefaultSettings)

\* A pump's thread is scheduled: a start_consuming that is due to raise does
\* raise.  The callers and the broker are under no obligation to act.
SpecConsume ==
    /\ InitConsume
    /\ [][NextConsume]_vars
    /\ \A m \in 1..MaxManagers : WF_vars(PumpLosesConnection(m))

(***************************************************************************)
(* The process-wide queue registry.                                        *)
(***************************************************************************)
\* list(cls._queue_list.keys()), in get_queue's message.
ChoicesOfChannelsList(registry) == {}
Choices(registry) == DOMAIN registry

\* ApexMQQueueManager.get_queue(queue_name)
GetQueue(t, name) ==
    /\ pc[t] = "idle"
    /\ call' = [call EXCEPT ![t] =
           IF name \notin DOMAIN queue_registry
           THEN [NewCall(t, "get_queue", name)
                    EXCEPT !.kind = "ImproperlyConfigured",
                           !.choices = Choices(queue_registry)]
           ELSE [NewCall(t, "get_queue", name)
                    EXCEPT !.kind = "ok", !.queue = queue_registry[name]]]
    /\ UNCHANGED <<appvars, max_retries, connection, local, sessions,
                   channels, managers, queues, queue_registry, declared, pc,
                   pubret>>

\* One thread that creates channels, declares queues through create_queue
\* and by constructing ApexMQQueueManager, and looks names up.
NextQueues ==
    \/ \E t \in PublisherThreads, name \in ChannelNames :
           CallCreateChannel(t, name)
    \/ \E t \in PublisherThreads : DialSucceeds(t)
    \/ \E s \in 1..MaxSessions : BrokerDrop(s)
    \/ \E t \in PublisherThreads, m \in 1..MaxManagers, name \in QueueNames :
           CreateQueue(t, m, name)
    \/ \E t \in PublisherThreads, m \in 1..MaxManagers, name \in QueueNames :
           NewQueueManager(t, m, name, FALSE)
    \/ \E t \in PublisherThreads, name \in QueueNames : GetQueue(t, name)

SpecQueues == InitPublish /\ [][NextQueues]_vars

(***************************************************************************)
(* Settings, and setup_rabbitmq's loop over them: for every item of        *)
(* APEXMQ_SETTINGS an ApexMQConnectionManager is constructed and then      *)
(* connect() is called on it.  boot.mode is "none" before ready(), then    *)
(* "debug" or "production" as settings.DEBUG is.  boot.stage is "none",    *)
(* "watching" (setup_rabbitmq is connected to autoreload_started), "setup" *)
(* (setup_rabbitmq is entered), "construct" (about to construct the        *)
(* manager of item boot.pos), "connect" (about to call its connect()),     *)
(* "done", or "failed" (an exception left ready() or setup_rabbitmq).      *)
(***************************************************************************)
SettingNames == {"CONNECTIONS", "default", "replica"}
RequiredKeys == {"USER", "PASSWORD"}

\* The settings dicts: items in the order of the dict, keys distinct.
SettingsSpace ==
    {cfg \in UNION {[1..n -> [name : SettingNames, keys : SUBSET RequiredKeys]]
                       : n \in 0..MaxConnections} :
        \A i, j \in 1..Len(cfg) : i # j => cfg[i].name # cfg[j].name}

\* The keys of the settings dict, and the keys of the dict a key maps to.
KeysOf(cfg) == {cfg[i].name : i \in 1..Len(cfg)}
ValueOf(cfg, name) ==
    cfg[CHOOSE i \in 1..Len(cfg) : cfg[i].name = name].keys

\* get_apexmq_settings(): "ok" or the exception raised.
GetApexmqSettings(cfg) ==
    IF cfg = <<>> THEN "ImproperlyConfigured" ELSE "ok"

\* get_connection_settings()
GetConnectionSettings(cfg) ==
    IF GetApexmqSettings(cfg) # "ok" THEN GetApexmqSettings(cfg)
    ELSE IF "CONNECTIONS" \notin KeysOf(cfg) THEN "ImproperlyConfigured"
    ELSE "ok"

\* "USER" not in connection_settings or "PASSWORD" not in connection_settings
CredentialsMissingBoth(keys) == "USER" \notin keys /\ "PASSWORD" \notin keys
CredentialsMissing(keys) == "USER" \notin keys \/ "PASSWORD" \notin keys

\* get_connection_params(connection_name)
GetConnectionParams(cfg, name) ==
    IF GetConnectionSettings(cfg) # "ok" THEN GetConnectionSettings(cfg)
    ELSE IF name \notin KeysOf(cfg) THEN "ImproperlyConfigured"
    ELSE IF CredentialsMissing(ValueOf(cfg, name)) THEN "ImproperlyConfigured"
    ELSE "ok"

\* ApexMQConnectionManager(connection_name): get_connection_params, then
\* self.connection_params["USER"] and ["PASSWORD"].
ConnectionManagerInit(cfg, name) ==
    IF GetConnectionParams(cfg, name) # "ok"
    THEN GetConnectionParams(cfg, name)
    ELSE IF RequiredKeys \subseteq ValueOf(cfg, name) THEN "ok"
    ELSE "KeyError"

\* def setup_rabbitmq(self, sender, **kwargs): its positional parameters.
SetupRabbitmqParams == <<"self", "sender">>

\* ApexMQConfig.ready(): with settings.DEBUG watch_for_changes(), which
\* connects setup_rabbitmq to autoreload_started; without it
\* self.setup_rabbitmq(), a call with no argument but self.
Ready(debug) ==
    /\ boot.stage = "none"
    /\ boot' =
           IF debug
           THEN [boot EXCEPT !.mode = "debug", !.stage = "watching"]
           ELSE IF BindArgs(SetupRabbitmqParams, <<"self">>) = "bound"
           THEN [boot EXCEPT !.mode = "production", !.stage = "setup"]
           ELSE [boot EXCEPT !.mode = "production", !.stage = "failed",
                             !.error = BindArgs(SetupRabbitmqParams,
                                                <<"self">>)]
    /\ UNCHANGED <<max_retries, connection, local, sessions, channels,
                   managers, queues, queue_registry, declared, pc, call,
                   pubret, channels_list, thread_list, consumers,
                   action_handlers, dispatched, pumps, settings>>

\* Django sends autoreload_started: the signal calls
\* setup_rabbitmq(signal=..., sender=...).
AutoreloadStarted ==
    /\ boot.stage = "watching"
    /\ boot' =
           IF BindArgs(SetupRabbitmqParams, <<"self", "sender">>) = "bound"
           THEN [boot EXCEPT !.stage = "setup"]
           ELSE [boot EXCEPT !.stage = "failed",
                             !.error = BindArgs(SetupRabbitmqParams,
                                                <<"self", "sender">>)]
    /\ UNCHANGED <<max_retries, connection, local, sessions, channels,
                   managers, queues, queue_registry, declared, pc, call,
                   pubret, channels_list, thread_list, consumers,
                   action_handlers, dispatched, pumps, settings>>

\* setup_rabbitmq up to its loop: stop_threads(), get_apexmq_settings().
StartSetup ==
    /\ boot.stage = "setup"
    /\ boot' = IF GetApexmqSettings(settings) = "ok"
               THEN [boot EXCEPT !.stage = "construct", !.pos = 1]
               ELSE [boot EXCEPT !.stage = "failed",
                                 !.error = GetApexmqSettings(settings)]
    /\ UNCHANGED <<max_retries, connection, local, sessions, channels,
                   managers, queues, queue_registry, declared, pc, call,
                   pubret, channels_list, thread_list, consumers,
                   action_handlers, dispatched, pumps,
                   settings>>

\* The loop's next item: connection_manager =
\* ApexMQConnectionManager(connection_name), or the end of the loop.
ConstructManager ==
    /\ boot.stage = "construct"
    /\ boot' =
           IF boot.pos > Len(settings) THEN [boot EXCEPT !.stage = "done"]
           ELSE LET name == settings[boot.pos].name
                    made == ConnectionManagerInit(settings, name)
                IN  IF made = "ok"
                    THEN [boot EXCEPT !.stage = "connect",
                                      !.constructed = Append(@, name)]
                    ELSE [boot EXCEPT !.stage = "failed", !.error = made]
    /\ UNCHANGED <<max_retries, connection, local, sessions, channels,
                   managers, queues, queue_registry, declared, pc, call,
                   pubret, channels_list, thread_list, consumers,
                   action_handlers, dispatched, pumps,
                   settings>>

\* connection_manager.connect() for the manager just constructed; ok: whether
\* it returns or raises ConnectionError.  After it the loop goes on to the
\* item's channels and then to the next item.
ConnectManager(ok) ==
    /\ boot.stage = "connect"
    /\ LET name == settings[boot.pos].name
       IN  boot' =
               IF ok
               THEN [boot EXCEPT !.stage = "construct", !.pos = @ + 1,
                                 !.dialed = Append(@, name)]
               ELSE [boot EXCEPT !.stage = "failed",
                                 !.error = "ConnectionError",
                                 !.dialed = Append(@, name)]
    /\ UNCHANGED <<max_retries, connection, local, sessions, channels,
                   managers, queues, queue_registry, declared, pc, call,
                   pubret, channels_list, thread_list, consumers,
                   action_handlers, dispatched, pumps,
                   settings>>

NextConfig ==
    \/ \E debug \in BOOLEAN : Ready(debug)
    \/ AutoreloadStarted
    \/ StartSetup
    \/ ConstructManager
    \/ \E ok \in BOOLEAN : ConnectManager(ok)

InitConfig ==
    /\ InitManager(DefaultMaxRetries)
    /\ \E cfg \in SettingsSpace : InitApp(<<>>, {}, cfg)

SpecConfig == InitConfig /\ [][NextConfig]_vars

(***************************************************************************)
(* create_queue called by threads that run concurrently: the function      *)
(* takes no lock, and the constructor's queue_declare waits for the broker *)
(* between the test of self.queue_list and the assignment to it.  A thread *)
(* inside it is at "declare" (about to construct the ApexMQQueueManager)   *)
(* or at "store" (about to assign self.queue_list[queue_name]).            *)
(***************************************************************************)
\* create_queue is entered: if queue_name not in self.queue_list.
BeginCreateQueue(t, m, name) ==
    /\ pc[t] = "idle"
    /\ m \in 1..Len(managers)
    /\ IF ~InQueueList(managers[m], name)
       THEN /\ call' = [call EXCEPT ![t] =
                   [NewCall(t, "create_queue", name) EXCEPT !.manager = m]]
            /\ pc' = [pc EXCEPT ![t] = "declare"]
       ELSE /\ call' = [call EXCEPT ![t] =
                   [NewCall(t, "create_queue", name)
                       EXCEPT !.kind = "ok", !.manager = m,
                              !.queue = managers[m].queue_list[name]]]
            /\ pc' = pc
    /\ UNCHANGED <<appvars, max_retries, connection, local, sessions,
                   channels, managers, queues, queue_registry, declared,
                   pubret>>

\* queue_manager = ApexMQQueueManager(self.channel, queue_name, queue_config)
DeclareQueue(t) ==
    /\ pc[t] = "declare"
    /\ LET m == call[t].manager
           name == call[t].name
       IN  IF ChannelClosed(managers[m].channel)
           THEN /\ call' = [call EXCEPT
                              ![t].kind = "ChannelWrongStateError"]
                /\ pc' = [pc EXCEPT ![t] = "idle"]
                /\ UNCHANGED <<queues, queue_registry, declared>>
           ELSE /\ Len(queues) < MaxQueues
                /\ LET q == Len(queues) + 1
                   IN  /\ declared' = [declared EXCEPT ![name] = @ + 1]
                       /\ queues' = Append(queues,
                              [channel |-> managers[m].channel,
                               queue_name |-> name, consumer |-> FALSE])
                       /\ queue_registry' = (name :> q) @@ queue_registry
                       /\ call' = [call EXCEPT ![t].queue = q]
                       /\ pc' = [pc EXCEPT ![t] = "store"]
    /\ UNCHANGED <<appvars, max_retries, connection, local, sessions,
                   channels, managers, pubret>>

\* self.queue_list[queue_name] = queue_manager; return queue_manager
StoreQueue(t) ==
    /\ pc[t] = "store"
    /\ managers' = [managers EXCEPT ![call[t].manager].queue_list =
           (call[t].name :> call[t].queue) @@ @]
    /\ call' = [call EXCEPT ![t].kind = "ok"]
    /\ pc' = [pc EXCEPT ![t] = "idle"]
    /\ UNCHANGED <<appvars, max_retries, connection, local, sessions,
                   channels, queues, queue_registry, declared, pubret>>

NextQueueRace ==
    \/ \E t \in Threads, name \in ChannelNames : CallCreateChannel(t, name)
    \/ \E t \in Threads : DialSucceeds(t)
    \/ \E s \in 1..MaxSessions : BrokerDrop(s)
    \/ \E t \in Threads, m \in 1..MaxManagers, name \in QueueNames :
           BeginCreateQueue(t, m, name)
    \/ \E t \in Threads : DeclareQueue(t)
    \/ \E t \in Threads : StoreQueue(t)

SpecQueueRace == InitPublish /\ [][NextQueueRace]_vars

(***************************************************************************)
(* The ChannelManagers of one connection, and the class's registry of them.*)
(***************************************************************************)
\* ApexMQChannelManager.get_channel(channel_name)
GetChannel(t, name) ==
    /\ pc[t] = "idle"
    /\ call' = [call EXCEPT ![t] =
           IF name \notin DOMAIN channels_list
           THEN [NewCall(t, "get_channel", name)
                    EXCEPT !.kind = "ImproperlyConfigured",
                           !.choices = DOMAIN channels_list]
           ELSE [NewCall(t, "get_channel", name)
                    EXCEPT !.kind = "ok", !.manager = channels_list[name]]]
    /\ UNCHANGED <<appvars, max_retries, connection, local, sessions,
                   channels, managers, queues, queue_registry, declared, pc,
                   pubret>>

\* ApexMQChannelManager.get_first_channel_name():
\* list(cls._channels_list.keys())[0]
GetFirstChannelName(t) ==
    /\ pc[t] = "idle"
    /\ call' = [call EXCEPT ![t] =
           IF DOMAIN channels_list = {}
           THEN [NewCall(t, "get_first_channel_name", "none")
                    EXCEPT !.kind = "IndexError"]
           ELSE [NewCall(t, "get_first_channel_name",
                         CHOOSE name \in DOMAIN channels_list : TRUE)
                    EXCEPT !.kind = "ok"]]
    /\ UNCHANGED <<appvars, max_retries, connection, local, sessions,
                   channels, managers, queues, queue_registry, declared, pc,
                   pubret>>

\* Threads that create up to MaxChannels ChannelManagers on the connection,
\* look channels up and close their sessions.
NextChannels ==
    \/ \E t \in Threads, name \in ChannelNames :
           CreateChannelWithin(t, name, MaxChannels)
    \/ \E t \in Threads : DialSucceeds(t)
    \/ \E t \in Threads : CloseConnection(t)
    \/ \E s \in 1..MaxSessions : BrokerDrop(s)
    \/ \E t \in Threads, name \in ChannelNames : GetChannel(t, name)
    \/ \E t \in Threads : GetFirstChannelName(t)

SpecChannels == InitPublish /\ [][NextChannels]_vars

(***************************************************************************)
(* One run of setup_rabbitmq on the main thread, for settings with one     *)
(* connection that has one channel, and the stop_threads() of the run that *)
(* a reload starts.  The position in setup_rabbitmq is read from the main  *)
(* thread's last call and from the pumps.                                  *)
(***************************************************************************)
\* ApexMQConfig.stop_threads(): join(timeout=1) waits for a thread that is
\* alive and returns with or without its end; the list is then emptied.
StopThreads(t) ==
    /\ pc[t] = "idle"
    /\ call' = [call EXCEPT ![t] =
           [NewCall(t, "stop_threads", "none") EXCEPT !.kind = "ok"]]
    /\ thread_list' = <<>>
    /\ UNCHANGED <<max_retries, connection, local, sessions, channels,
                   managers, queues, queue_registry, declared, pc,
                   pubret, channels_list, consumers,
                   action_handlers, dispatched, pumps, settings, boot>>

\* stop_threads() is the first statement of setup_rabbitmq, of the first run
\* and of a run after the threads were started.
SetupStopThreads(t) ==
    /\ call[t] = NoCall \/ thread_list # <<>>
    /\ StopThreads(t)

\* connection_manager.connect(), on the manager just constructed.
SetupConnect(t) ==
    /\ call[t].op = "stop_threads"
    /\ managers = <<>>
    /\ CallConnect(t)

\* connection_manager.create_channel(channel_name, channel_config), after
\* connect() returned.
SetupCreateChannel(t, name) ==
    /\ call[t].op = "connect"
    /\ call[t].kind = "ok"
    /\ CallCreateChannel(t, name)

\* The main thread is in the loop over the queues of ChannelManager m: its
\* create_channel, or the ApexMQQueueManager of an earlier queue, returned.
InQueuesLoop(t, m) ==
    /\ call[t].op \in {"create_channel", "QueueManager"}
    /\ call[t].kind = "ok"
    /\ call[t].manager = m

\* ApexMQQueueManager(channel=channel_manager.channel, ...) and
\* basic_consumer, for a queue of the channel not yet declared.
SetupConsumeQueue(t, m, name) ==
    /\ InQueuesLoop(t, m)
    /\ declared[name] = 0
    /\ ConsumeQueue(t, m, name)

\* The thread of the channel is started after the loop over its queues.
SetupStartPump(t, m) ==
    /\ InQueuesLoop(t, m)
    /\ StartPump(t, m)

NextStartup ==
    \/ \E t \in PublisherThreads : SetupStopThreads(t)
    \/ \E t \in PublisherThreads : SetupConnect(t)
    \/ \E t \in PublisherThreads : DialSucceeds(t)
    \/ \E t \in PublisherThreads : DialFails(t)
    \/ \E t \in PublisherThreads : Wake(t)
    \/ \E t \in PublisherThreads, name \in ChannelNames :
           SetupCreateChannel(t, name)
    \/ \E t \in PublisherThreads, m \in 1..MaxManagers, name \in QueueNames :
           SetupConsumeQueue(t, m, name)
    \/ \E t \in PublisherThreads, m \in 1..MaxManagers : SetupStartPump(t, m)
    \/ \E s \in 1..MaxSessions : BrokerDrop(s)
    \/ \E m \in 1..MaxManagers, action \in DispatchActions,
          body \in Payloads :
           Deliver(m, action, body)
    \/ \E m \in 1..MaxManagers : PumpLosesConnection(m)

SpecStartup == InitConsume /\ [][NextStartup]_vars

(***************************************************************************)
(* Properties of connect(), under SpecConnect.                             *)
(***************************************************************************)
AllFailed(d) == \A i \in 1..Len(d) : ~d[i]

\* C3: connect() dials until the first attempt that succeeds and never more
\* than max_retries times: a connect() that returned made k dials,
\* 1 <= k <= max_retries, of which only the last succeeded, and it returned the
\* session of that dial; a connect() that raised ConnectionError made exactly
\* max_retries dials, all failed; this for every max_retries >= 0.
C3_ConnectDialsUntilFirstSuccess ==
    \A t \in Threads :
        call[t].op = "connect" =>
            LET d == call[t].dials
                k == Len(d)
            IN  /\ k <= max_retries
                /\ call[t].kind \in {"running", "ok", "ConnectionError"}
                /\ call[t].kind = "ok" =>
                       /\ k >= 1
                       /\ d[k]
                       /\ AllFailed(SubSeq(d, 1, k - 1))
                       /\ call[t].session \in 1..Len(sessions)
                /\ call[t].kind = "ConnectionError" =>
                       /\ k = max_retries
                       /\ AllFailed(d)
                       /\ call[t].session = None
                /\ call[t].kind = "running" => AllFailed(d)

\* Witness of C3: one connect() returned on its second dial while another
\* raised ConnectionError after max_retries >= 2 failed dials.
C3_Witness ==
    \E t, u \in Threads :
        /\ call[t].op = "connect" /\ call[t].kind = "ok"
        /\ call[t].dials = <<FALSE, TRUE>>
        /\ call[u].op = "connect" /\ call[u].kind = "ConnectionError"
        /\ Len(call[u].dials) = max_retries

\* C4: after connect() has returned successfully the ConnectionManager's
\* `connection` attribute holds the session it established.
C4_ConnectStoresSession ==
    \A t \in Threads :
        (call[t].op = "connect" /\ call[t].kind = "ok") =>
            (connection # None /\ connection = call[t].session)

(***************************************************************************)
(* Properties of get_connection() and create_channel(), under Spec.        *)
(***************************************************************************)
\* C5: get_connection() calls connect() if and only if the calling thread
\* has no session or its session reports closed; otherwise it returns the
\* session it holds without a dial, and a call that had to connect and
\* returned made exactly one successful dial.
C5_GetConnectionLazy ==
    \A t \in Threads :
        call[t].op = "get_connection" =>
            /\ call[t].connects = (IF call[t].preLive THEN 0 ELSE 1)
            /\ call[t].preLive =>
                   /\ call[t].kind = "ok"
                   /\ call[t].session = call[t].pre
                   /\ call[t].dials = <<>>
            /\ (~call[t].preLive /\ call[t].kind = "ok") =>
                   /\ call[t].dials # <<>>
                   /\ call[t].dials[Len(call[t].dials)]
                   /\ AllFailed(SubSeq(call[t].dials, 1, Len(call[t].dials) - 1))
                   /\ call[t].session # call[t].pre

\* Witness of C5: a thread whose session had been closed called
\* get_connection() again and now calls it while holding the new session.
C5_Witness ==
    \E t \in Threads :
        /\ call[t].op = "get_connection"
        /\ call[t].kind = "ok"
        /\ call[t].preLive
        /\ call[t].session = call[t].pre
        /\ call[t].session > 1
        /\ \E s \in 1..Len(sessions) : sessions[s].is_closed

\* C6 as stated: while threads call get_connection() on one ConnectionManager
\* at most one dial is in progress and at most one session is open.
C6_SingleFlightPerConnection ==
    /\ Cardinality({t \in Threads : pc[t] = "dial"}) <= 1
    /\ Cardinality({s \in 1..Len(sessions) : ~sessions[s].is_closed}) <= 1

\* C6 as amended: reconnection is single-flight per thread: a thread is inside
\* connect() only while it holds no live session, and every open session is
\* the session of exactly one thread, so at most one per thread is open.
C6_SingleFlightPerThread ==
    /\ \A t \in Threads : pc[t] # "idle" => ~Live(t)
    /\ \A s \in 1..Len(sessions) :
           ~sessions[s].is_closed =>
               Cardinality({t \in Threads : local[t] = s}) = 1

\* Witness of C6: two threads are dialing at once for get_connection().
C6_Witness ==
    \A t \in Threads : pc[t] = "dial" /\ call[t].op = "get_connection"

\* C7 as stated: while some thread holds a live session of the manager,
\* get_connection() from any thread returns that session and does not dial.
C7_SessionSharedAcrossThreads ==
    \A t \in Threads :
        (call[t].op = "get_connection" /\ call[t].preOthers # {}) =>
            /\ call[t].connects = 0
            /\ call[t].kind = "ok" => call[t].session \in call[t].preOthers

\* C7 as amended: the session is per thread: get_connection() returns the
\* session of the calling thread's own slot, never one another thread held,
\* and no session is in the slots of two threads.
C7_SessionPerThread ==
    /\ \A t \in Threads :
           (call[t].op = "get_connection" /\ call[t].kind = "ok") =>
               /\ local[t] = call[t].session
               /\ call[t].session \notin call[t].preOthers
    /\ \A t, u \in Threads :
           (t # u /\ local[t] > None) => local[t] # local[u]

\* Witness of C7: a thread without a session called get_connection() while
\* another thread held a live one, and got a session of its own.
C7_Witness ==
    \E t \in Threads :
        /\ call[t].op = "get_connection"
        /\ call[t].kind = "ok"
        /\ ~call[t].preLive
        /\ call[t].preOthers # {}
        /\ \E u \in Threads \ {t} : Live(u)

\* C8: create_channel() called without a live connection fails with
\* NotConnected (read here as any connection error the code raises), opens no
\* channel and dials no connection.
C8_CreateChannelNotConnected ==
    \A t \in Threads :
        (call[t].op = "create_channel" /\ call[t].kind # "running"
            /\ ~call[t].preLive) =>
            /\ call[t].kind \in {"NotConnected", "ConnectionError"}
            /\ call[t].manager = None
            /\ call[t].dials = <<>>
            /\ channels = <<>>

\* C9: a create_channel() that returns leaves a ChannelManager whose consume
\* channel and publish channel are two distinct channels, both opened on the
\* session the calling thread holds, which is open.
C9_TwoChannelsOnLiveSession ==
    [][\A t \in Threads :
          (call'[t] # call[t] /\ call'[t].op = "create_channel"
              /\ call'[t].kind = "ok") =>
              LET m == managers'[call'[t].manager]
              IN  /\ m.channel # m.publish_channel
                  /\ {m.channel, m.publish_channel} \subseteq 1..Len(channels')
                  /\ channels'[m.channel].session = local'[t]
                  /\ channels'[m.publish_channel].session = local'[t]
                  /\ call'[t].session = local'[t]
                  /\ local'[t] > None
                  /\ ~sessions'[local'[t]].is_closed]_vars

\* Witness of C9: create_channel() returned on a manager that was connected.
C9_Witness ==
    \E t \in Threads :
        /\ call[t].op = "create_channel"
        /\ call[t].kind = "ok"
        /\ call[t].preLive
        /\ call[t].manager # None

C1_PublishListOneMessagePerQueue ==
    (pubret.api = "publish" /\ pubret.to.type = "list"
        /\ JsonDumps(pubret.body).ok) =>
        /\ Len(pubret.sent) = Len(pubret.to.items)
        /\ \A i \in 1..Len(pubret.sent) :
               pubret.sent[i] = Message(pubret.to.items[i], pubret.action,
                                        JsonDumps(pubret.body).text)

\* C2: publish(action, body, "broadcast") hands the broker one message for
\* every queue name in the process-wide registry at the time of the call, and
\* none with another routing key.
C2_BroadcastReachesRegistry ==
    (pubret.api = "publish" /\ pubret.to = Broadcast
        /\ JsonDumps(pubret.body).ok) =>
        /\ {pubret.sent[i].routing_key : i \in 1..Len(pubret.sent)}
               = pubret.registry
        /\ Len(pubret.sent) = Cardinality(pubret.registry)
        /\ \A i \in 1..Len(pubret.sent) :
               pubret.sent[i].content_type = pubret.action

\* C10: neither ChannelManager.publish nor the Publish API raises when
\* publishing fails: every failure is logged, the call returns, and the
\* Publish API has gone through all its destinations.
C10_PublishNeverRaises ==
    pubret.api # "none" =>
        /\ pubret.raised = "none"
        /\ pubret.logged + Len(pubret.sent) = Len(pubret.attempted)
        /\ pubret.api = "publish" => pubret.attempted = Iterate(pubret.to)
        /\ pubret.api = "ChannelManager.publish" =>
               /\ pubret.attempted = <<pubret.routing_key>>
               /\ pubret.exc # "none" =>
                      (pubret.logged = 1 /\ pubret.sent = <<>>)
               /\ pubret.exc = "none" =>
                      pubret.sent = <<Message(pubret.routing_key,
                                      pubret.action,
                                      JsonDumps(pubret.body).text)>>

\* Witness of C10: ChannelManager.publish was called after the session of its
\* publish channel had closed, and returned.
C10_Witness ==
    /\ pubret.api = "ChannelManager.publish"
    /\ pubret.exc = "ChannelWrongStateError"
    /\ pubret.logged = 1
    /\ pubret.raised = "none"

(***************************************************************************)
(* Properties of the dispatcher, under SpecDispatch.                       *)
(***************************************************************************)
\* The handlers of the registry whose prefix is the action's first segment
\* and that have a callable method named by its remaining segments.
Addressed(registry, action) ==
    {i \in 1..Len(registry) :
        /\ action # <<>>
        /\ registry[i].lookup_prefix = action[1]
        /\ Join("_", Tail(action)) \in registry[i].methods}

\* The invocation of a method of the i-th handler with the decoded body.
MethodCall(i, action, body) ==
    [target |-> "method", handler |-> i, name |-> Join("_", Tail(action)),
     arg |-> JsonLoads(body).value]

\* C11 as stated: when the action's first segment is the lookup_prefix of a
\* registered handler and its remaining segments, joined with '_', name a
\* callable method of that handler, the dispatcher invokes that method exactly
\* once with the JSON-decoded body and invokes nothing else.
C11_MatchingHandlerInvoked ==
    \A i \in Addressed(consumers, dispatched.action) :
        JsonLoads(dispatched.body).ok =>
            dispatched.invoked =
                <<MethodCall(i, dispatched.action, dispatched.body)>>

\* The first handler of the registry whose prefix is the action's first
\* segment, or 0.
FirstWithPrefix(registry, action) ==
    LET with == {i \in 1..Len(registry) :
                    action # <<>> /\ registry[i].lookup_prefix = action[1]}
    IN  IF with = {} THEN 0
        ELSE CHOOSE i \in with : \A j \in with : i <= j

\* C11 as amended: only the first registered handler whose lookup_prefix is
\* the action's first segment is consulted: when the remaining segments name
\* a callable method of it, that method is invoked exactly once with the
\* JSON-decoded body, and no method of another handler and no function-table
\* entry is invoked; when they do not, nothing is invoked.
C11_FirstMatchingHandlerInvoked ==
    LET i == FirstWithPrefix(consumers, dispatched.action)
    IN  (i # 0 /\ JsonLoads(dispatched.body).ok) =>
            /\ dispatched.raised = "none"
            /\ dispatched.warnings = 0
            /\ dispatched.invoked =
                   IF i \in Addressed(consumers, dispatched.action)
                   THEN <<MethodCall(i, dispatched.action, dispatched.body)>>
                   ELSE <<>>

\* Witness of C11: order.created was dispatched while two handlers with the
\* prefix "order" and a method "created" were registered, and a function for
\* "order.created" as well: the first handler's method was invoked.
C11_Witness ==
    /\ dispatched.action = <<"order", "created">>
    /\ Cardinality(Addressed(consumers, dispatched.action)) = 2
    /\ "order.created" \in action_handlers
    /\ Len(dispatched.invoked) = 1
    /\ dispatched.invoked[1].handler = 1

\* C12: when no class-based handler's prefix matches and the exact action
\* string is a key of the function table, the dispatcher invokes that function
\* exactly once and passes it the decoded body, a structured value and not the
\* raw payload.
C12_FunctionGetsDecodedBody ==
    (/\ dispatched.action # <<>>
     /\ FirstWithPrefix(consumers, dispatched.action) = 0
     /\ Join(".", dispatched.action) \in action_handlers
     /\ JsonLoads(dispatched.body).ok) =>
        /\ Len(dispatched.invoked) = 1
        /\ dispatched.invoked[1].target = "function"
        /\ dispatched.invoked[1].name = Join(".", dispatched.action)
        /\ dispatched.invoked[1].arg.type = "dict"
        /\ dispatched.invoked[1].arg = JsonLoads(dispatched.body).value

\* C13: an action that matches no class-based handler's prefix and is not a
\* key of the function table makes the dispatcher emit exactly one warning,
\* invoke nothing and raise nothing.
C13_UnroutedWarnsOnce ==
    (/\ dispatched.action # <<>>
     /\ FirstWithPrefix(consumers, dispatched.action) = 0
     /\ Join(".", dispatched.action) \notin action_handlers) =>
        /\ dispatched.warnings = 1
        /\ dispatched.handler_warnings = 0
        /\ dispatched.invoked = <<>>
        /\ dispatched.raised = "none"

\* Witness of C13: ping.now was dispatched while handlers were registered
\* for other prefixes and a function for "ping": one warning, nothing invoked.
C13_Witness ==
    /\ dispatched.action = <<"ping", "now">>
    /\ Len(consumers) = MaxHandlers
    /\ "ping" \in action_handlers
    /\ dispatched.warnings = 1
    /\ dispatched.invoked = <<>>

(***************************************************************************)
(* Properties of the consume threads, under SpecConsume.                   *)
(***************************************************************************)
\* C14: a delivered message whose body cannot be decoded fails only that
\* message: no exception leaves the dispatcher callback into the consume loop,
\* and no pump is ended by it.
C14_UndecodableBodyFailsOnlyMessage ==
    /\ dispatched.raised = "none"
    /\ \A m \in 1..MaxManagers : pumps[m] # "crashed"

\* C15: whenever a running pump's connection is lost, the pump is eventually
\* running again on an open channel, with no step from outside the pump.
C15_PumpReconnects ==
    \A m \in 1..MaxManagers :
        [](( /\ m <= Len(managers)
             /\ pumps[m] = "running"
             /\ ChannelClosed(managers[m].channel))
           => <>( /\ pumps[m] = "running"
                  /\ ~ChannelClosed(managers[m].channel)))

(***************************************************************************)
(* Properties of queues and of the queue registry.                         *)
(***************************************************************************)
\* The queue instances of name `name` on channel ch.
InstancesOn(ch, name) ==
    {q \in 1..Len(queues) :
        queues[q].channel = ch /\ queues[q].queue_name = name}

\* C16 (under SpecPublish, where queues are declared through create_queue
\* only): create_queue is idempotent per channel: however often it is called
\* with a name on a ChannelManager, one instance of that name exists on the
\* manager's channel, every call returns it, and the broker has received one
\* queue_declare of the name for each manager that has it.
C16_CreateQueueIdempotent ==
    /\ \A name \in QueueNames :
           declared[name] =
               Cardinality({m \in 1..Len(managers) :
                               name \in DOMAIN managers[m].queue_list})
    /\ \A m \in 1..Len(managers) :
           \A name \in DOMAIN managers[m].queue_list :
               InstancesOn(managers[m].channel, name)
                   = {managers[m].queue_list[name]}
    /\ \A t \in PublisherThreads :
           (call[t].op = "create_queue" /\ call[t].kind = "ok") =>
               /\ call[t].name \in DOMAIN managers[call[t].manager].queue_list
               /\ call[t].queue =
                      managers[call[t].manager].queue_list[call[t].name]

\* Witness of C16: create_queue returned an instance that is not the newest
\* one: the name had been created before, another queue after it, and the
\* call was made again.
C16_Witness ==
    \E t \in PublisherThreads :
        /\ call[t].op = "create_queue"
        /\ call[t].kind = "ok"
        /\ call[t].queue < Len(queues)
        /\ declared[call[t].name] = 1

\* The instance the first declaration of a name created.
FirstDeclared(name) ==
    CHOOSE q \in 1..Len(queues) :
        /\ queues[q].queue_name = name
        /\ \A r \in 1..Len(queues) : queues[r].queue_name = name => q <= r

\* C17 (under SpecQueues): once a name has been declared, the registry maps
\* it to the instance its first declaration created, whatever happens later,
\* and get_queue(name) returns that instance.
C17_RegistryKeepsFirstInstance ==
    /\ \A name \in DOMAIN queue_registry :
           queue_registry[name] = FirstDeclared(name)
    /\ \A t \in PublisherThreads :
           (call[t].op = "get_queue" /\ call[t].kind = "ok") =>
               call[t].queue = FirstDeclared(call[t].name)

\* C18 (under SpecQueues): get_queue(name) leaves the registry as it is; for
\* a name that is not in it the call fails with ImproperlyConfigured, whose
\* message lists exactly the names that are in it; for a name that is in it
\* the call returns the instance the registry maps the name to.
C18_GetQueueLooksUp ==
    [][\A t \in PublisherThreads :
          (call'[t] # call[t] /\ call'[t].op = "get_queue") =>
              /\ queue_registry' = queue_registry
              /\ queues' = queues
              /\ IF call'[t].name \in DOMAIN queue_registry
                 THEN /\ call'[t].kind = "ok"
                      /\ call'[t].queue = queue_registry[call'[t].name]
                 ELSE /\ call'[t].kind = "ImproperlyConfigured"
                      /\ call'[t].queue = None
                      /\ call'[t].choices = DOMAIN queue_registry]_vars

\* Witness of C18: get_queue failed for a name that is not registered while
\* another name is, and listed that name.
C18_Witness ==
    \E t \in PublisherThreads :
        /\ call[t].op = "get_queue"
        /\ call[t].kind = "ImproperlyConfigured"
        /\ call[t].choices # {}
        /\ call[t].choices = DOMAIN queue_registry
        /\ call[t].name \notin DOMAIN queue_registry

(***************************************************************************)
(* Properties of the settings, under SpecConfig.                           *)
(***************************************************************************)
\* The names for which the loop has done what the sequence records.
Names(seq) == {seq[i] : i \in 1..Len(seq)}

\* C20: a connection whose configuration lacks USER or PASSWORD is rejected
\* when its ConnectionManager is constructed: setup_rabbitmq gets no further
\* than that item, the exception that ends it there is ImproperlyConfigured,
\* no manager exists for the connection and connect() is not called for it.
C20_MissingCredentialsRejected ==
    \A i \in 1..Len(settings) :
        (~(RequiredKeys \subseteq settings[i].keys)) =>
            /\ boot.pos <= i
            /\ settings[i].name \notin Names(boot.constructed)
            /\ settings[i].name \notin Names(boot.dialed)
            /\ boot.stage # "done"
            /\ (boot.pos = i /\ boot.stage \in {"connect", "failed"}) =>
                   /\ boot.stage = "failed"
                   /\ boot.error = "ImproperlyConfigured"

\* Witness of C20: the first connection was constructed and connected, and
\* the second, which has a USER and no PASSWORD, was rejected.
C20_Witness ==
    /\ boot.stage = "failed"
    /\ boot.error = "ImproperlyConfigured"
    /\ boot.pos = 2
    /\ "CONNECTIONS" \in KeysOf(settings)
    /\ settings[2].keys = {"USER"}
    /\ boot.dialed = <<settings[1].name>>

(***************************************************************************)
(* More properties of connect(), under SpecConnect.                        *)
(***************************************************************************)
\* C21: connect() sleeps only between consecutive attempts: a thread that is
\* in time.sleep(retry_delay) has an attempt left, so every sleep is followed
\* by another dial and none by the ConnectionError.
C21_SleepsOnlyBetweenAttempts ==
    \A t \in Threads :
        pc[t] = "sleep" => Len(call[t].dials) < max_retries

(***************************************************************************)
(* More properties of the dispatcher, under SpecDispatch.                  *)
(***************************************************************************)
\* C22: when the first handler whose prefix is the action's first segment
\* has no callable method for the remaining segments, the message counts as
\* handled by it: nothing is invoked, neither a method of another handler nor
\* the function registered for the exact action, the dispatcher's "no
\* consumers found" warning is not emitted and nothing is raised.
C22_PrefixMatchWithoutMethodIsHandled ==
    LET i == FirstWithPrefix(consumers, dispatched.action)
    IN  (i # 0 /\ i \notin Addressed(consumers, dispatched.action)) =>
            /\ dispatched.invoked = <<>>
            /\ dispatched.warnings = 0
            /\ dispatched.raised = "none"

\* Witness of C22: order.status.updated was dispatched to a registry whose
\* first handler of prefix "order" has no method status_updated, while a
\* later handler has one and a function is registered for the exact action.
C22_Witness ==
    /\ dispatched.action = <<"order", "status", "updated">>
    /\ FirstWithPrefix(consumers, dispatched.action) = 1
    /\ Addressed(consumers, dispatched.action) = {2}
    /\ "order.status.updated" \in action_handlers
    /\ dispatched.handler_warnings = 1
    /\ dispatched.invoked = <<>>

(***************************************************************************)
(* Properties of concurrent create_queue calls, under SpecQueueRace.       *)
(***************************************************************************)
\* C23: in every interleaving of two threads calling create_queue with the
\* same name on the same ChannelManager, the callers that have returned got
\* the same instance, and the name has been declared once on the manager's
\* channel.
C23_ConcurrentCreateQueueIdempotent ==
    \A t, u \in Threads :
        (/\ call[t].op = "create_queue" /\ call[t].kind = "ok"
         /\ call[u].op = "create_queue" /\ call[u].kind = "ok"
         /\ call[t].manager = call[u].manager
         /\ call[t].name = call[u].name) =>
            /\ call[t].queue = call[u].queue
            /\ Cardinality(InstancesOn(managers[call[t].manager].channel,
                                       call[t].name)) = 1

(***************************************************************************)
(* Properties of the ChannelManagers, under SpecChannels.                  *)
(***************************************************************************)
\* The channels the ChannelManagers publish on, and those they consume on.
PublishChannels == {managers[m].publish_channel : m \in 1..Len(managers)}
ConsumeChannels == {managers[m].channel : m \in 1..Len(managers)}

\* C24: at most one publish-only channel is open on any session of the
\* connection, however many ChannelManagers have been created, and no
\* publish channel is a consume channel.
C24_OnePublishChannelPerConnection ==
    /\ \A s \in 1..Len(sessions) :
           Cardinality({c \in PublishChannels : channels[c].session = s}) <= 1
    /\ PublishChannels \cap ConsumeChannels = {}

\* C29: once create_channel(name, config) has returned a ChannelManager,
\* get_channel(name) returns a manager of that name and
\* get_first_channel_name() returns the name of a created channel.
C29_CreatedChannelIsRegistered ==
    [][\A t \in Threads :
          LET named(n) == {m \in 1..Len(managers) :
                              managers[m].channel_name = n}
          IN  /\ (/\ call'[t] # call[t]
                  /\ call'[t].op = "get_channel"
                  /\ named(call'[t].name) # {}) =>
                     /\ call'[t].kind = "ok"
                     /\ call'[t].manager \in named(call'[t].name)
              /\ (/\ call'[t] # call[t]
                  /\ call'[t].op = "get_first_channel_name"
                  /\ managers # <<>>) =>
                     /\ call'[t].kind = "ok"
                     /\ named(call'[t].name) # {}]_vars

(***************************************************************************)
(* More properties of close_connection(), under Spec.                      *)
(***************************************************************************)
\* C30: when close_connection() returns, no session opened through the
\* ConnectionManager is open, whichever thread opened it.
C30_CloseLeavesNoSessionOpen ==
    [][\A t \in Threads :
          (/\ call'[t] # call[t]
           /\ call'[t].op = "close_connection"
           /\ call'[t].kind = "ok") =>
              \A s \in 1..Len(sessions') : sessions'[s].is_closed]_vars

(***************************************************************************)
(* More properties of startup, under SpecConfig.                           *)
(***************************************************************************)
\* C26: when the application becomes ready with DEBUG off, startup completes
\* without error: it fails only for settings it rejects or for a broker it
\* cannot reach.
C26_ProductionStartupCompletes ==
    (boot.mode = "production" /\ boot.stage = "failed") =>
        boot.error \in {"ImproperlyConfigured", "KeyError", "ConnectionError"}

\* C27: for settings that map connection names to their settings, the
\* parameters of a name that is in them with USER and PASSWORD set are
\* resolved without a configuration error: the construction of the manager
\* of such an item does not end setup_rabbitmq with ImproperlyConfigured.
C27_ParamsResolveForStartupShape ==
    (/\ boot.stage = "failed"
     /\ boot.error = "ImproperlyConfigured"
     /\ boot.pos \in 1..Len(settings)) =>
        ~(RequiredKeys \subseteq settings[boot.pos].keys)

(***************************************************************************)
(* Properties of a run of setup_rabbitmq, under SpecStartup.               *)
(***************************************************************************)
\* C25: after stop_threads() has returned, every pump thread that an earlier
\* setup started has ended: none is still in start_consuming.
C25_StopThreadsEndsPumps ==
    \A t \in Threads :
        (call[t].op = "stop_threads" /\ call[t].kind = "ok") =>
            \A m \in 1..MaxManagers : pumps[m] # "running"

\* setup_rabbitmq has started the thread of its channel: the run is complete.
SetupComplete == \E m \in 1..MaxManagers : pumps[m] # "none"

\* The ConnectionManager holds session s, in its connection attribute or in
\* a thread's slot.
Tracked(s) == connection = s \/ \E t \in Threads : local[t] = s

\* C28: when setup_rabbitmq has completed, the connection was dialed
\* successfully once, and every session that is open is one the
\* ConnectionManager holds.
C28_StartupOpensOneSession ==
    SetupComplete =>
        /\ Len(sessions) = 1
        /\ \A s \in 1..Len(sessions) : ~sessions[s].is_closed => Tracked(s)

====
